---- MODULE Spec2Model ----
(***************************************************************************)
(* Model of the autoassigner: rotation of task assignment among the       *)
(* members of one group (runner.Assign, runner.GetCounts,                 *)
(* runner.ResetCounts), the three selection strategies and the two        *)
(* availability checkers.                                                  *)
(*                                                                         *)
(* The persisted state of the group is its configuration file (conf), the *)
(* append-only position history index.log (indexLog), the count snapshot  *)
(* counts.json (countsFile) and the append-only audit log assignments.log *)
(* (auditLog).  Indices are 0-based as in the Go code; a member list is a *)
(* TLA+ sequence, so users[i] of the code is users[i + 1] here.           *)
(* Timestamps are not modelled: no decision of the code reads them.       *)
(* An append to index.log or to assignments.log adds its line, or fails   *)
(* and leaves nothing or the beginning of the line: a cut line, with no   *)
(* newline, that the text of the next append follows on the same line.    *)
(* A line of index.log is held as what readLastIndex gets from it, a line *)
(* of assignments.log as its entry; at most MaxCutWrites appends of a run *)
(* leave a cut line.  counts.json is written with ioutil.WriteFile: the   *)
(* file is opened with O_TRUNC, which empties it, then written and        *)
(* closed, steps that each can fail and between which other processes     *)
(* run; when the close fails the whole map is in the file.  An            *)
(* empty counts.json, or one that holds only the beginning of a map, does *)
(* not parse and reads as the empty map, like a missing one.  The maps    *)
(* that the processes of one run write hold the same names and counts of  *)
(* one digit, so they are of the same length: a later write replaces an   *)
(* earlier one in full, and a write that fails part-way leaves its first  *)
(* entries followed by the last entries of the map that was in the file.  *)
(*                                                                         *)
(* A read of index.log or of counts.json can fail as a write can: because *)
(* the data directory cannot be made (config.GetGroupDataDir) or because  *)
(* the file cannot be read (ioutil.ReadFile).  readLastIndex and          *)
(* readCounts return no error then; each action that reads draws the      *)
(* fault its read meets, at most MaxReadFaults in a run.  Where processes *)
(* run concurrently the reads meet no fault.                               *)
(*                                                                         *)
(* The counts of the files of these runs are small integers.  A count     *)
(* given to a strategy directly is a Go int of 64 bits, held as a pair    *)
(* (hi, lo) that stands for hi * 2^31 + lo.                                *)
(***************************************************************************)
EXTENDS Integers, Sequences, FiniteSets, TLC

\* ---------------------------------------------------------------- bounds
\* longest member list of a group configuration
MaxUsers == 3
\* number of operations (Assign, GetCounts, ResetCounts) started in a run
MaxOps == 3
\* number of operations started in a run of the specification with fairness
MaxFairOps == 2
\* invocations started where dry runs and real runs are compared
MaxDryOps == 2
\* invocations started on a group whose file was edited
MaxLaterOps == 1
\* reads of a state file that meet a fault in a run
MaxReadFaults == 1
\* appends to a log that fail part-way and leave a cut line in a run
MaxCutWrites == 1
\* largest small count in the count maps given to the strategies and found
\* in a counts file that earlier runs left
MaxCount == 2

\* ------------------------------------------------------------- constants
\* initial value of min in LeastAssigned.SelectNext: 1<<31 - 1
MaxInt31 == 2147483647

Roster == <<"alice", "bob", "charlie", "dave", "erin">>
Names == {Roster[i] : i \in 1..Len(Roster)}

Strategies == {"round_robin", "random", "least_assigned"}
Checkers == {"inout", "always_available"}

\* config.Settings.Availability.InOutUnavailableStatuses as configured in
\* the README and in the tests
InOutUnavailableStatuses == {"OOO", "AWAY"}

Procs == {"p1", "p2"}

\* ---------------------------------------------------------------- helpers
Range(s) == {s[i] : i \in 1..Len(s)}

EmptyMap == [n \in {} |-> 0]

\* Go map read: the zero value for an absent key
MapGet(m, k) == IF k \in DOMAIN m THEN m[k] ELSE 0

\* Go map write
MapSet(m, k, v) == [x \in (DOMAIN m) \cup {k} |-> IF x = k THEN v ELSE m[x]]

\* the Go % operator: truncated remainder, sign of the dividend
GoMod(a, b) == IF a >= 0 THEN a % b ELSE 0 - ((0 - a) % b)

Last(s) == s[Len(s)]

\* member lists a group file can hold: prefixes of the roster and one list
\* with a duplicated name
UserLists ==
    {SubSeq(Roster, 1, k) : k \in 0..MaxUsers} \cup {<<"alice", "bob", "alice">>}

\* group configurations: the file is absent, or it parses to a strategy
\* name, a checker name and a member list
AbsentConf == [exists |-> FALSE, strategy |-> "", checker |-> "", users |-> <<>>]

Configs ==
    {AbsentConf} \cup
    {[exists |-> TRUE, strategy |-> s, checker |-> c, users |-> u] :
        s \in Strategies \cup {"bogus"}, c \in Checkers \cup {"bogus"},
        u \in UserLists}

\* ------------------------------------------------------ selection strategies
\* A strategy result is the pair (index, error) the Go method returns.
SelResult(i, e) == [index |-> i, err |-> e]

\* RoundRobin.SelectNext that does not wrap around the end of the list
RoundRobinSelectNextNoWrap(users, lastIndex, counts) ==
    IF Len(users) = 0
    THEN SelResult(-1, TRUE)
    ELSE SelResult(lastIndex + 1, FALSE)

\* selector.RoundRobin.SelectNext
RoundRobinSelectNext(users, lastIndex, counts) ==
    IF Len(users) = 0
    THEN SelResult(-1, TRUE)
    ELSE SelResult(GoMod(lastIndex + 1, Len(users)), FALSE)

\* Random.SelectNext that always draws the first index
RandomSelectNextFirst(users, lastIndex, counts) ==
    IF Len(users) = 0
    THEN {SelResult(-1, TRUE)}
    ELSE {SelResult(0, FALSE)}

\* selector.Random.SelectNext: rand.Intn(len(users)) is any index of the
\* list, so the operator gives the set of possible results
RandomSelectNext(users, lastIndex, counts) ==
    IF Len(users) = 0
    THEN {SelResult(-1, TRUE)}
    ELSE {SelResult(i, FALSE) : i \in 0..(Len(users) - 1)}

\* A count given to a strategy is a Go int, 64 bits wide on the usual
\* builds, and can lie above 1<<31 - 1.  It is held as the pair (hi, lo)
\* that stands for hi * 2^31 + lo with lo in 0..(1<<31 - 1); the counts of
\* a counts file of the runs modelled here are small and held as integers.
Wide(n) ==
    IF n >= 0
    THEN [hi |-> 0, lo |-> n]
    ELSE [hi |-> -1, lo |-> (n + MaxInt31) + 1]

\* a < b on counts
WideLess(a, b) == a.hi < b.hi \/ (a.hi = b.hi /\ a.lo < b.lo)

\* counts[user] on a map of counts: Go gives zero for a missing key
WideGet(counts, user) ==
    IF user \in DOMAIN counts THEN counts[user] ELSE Wide(0)

\* the map of a counts file as the map[string]int a strategy receives
WideMap(counts) == [x \in DOMAIN counts |-> Wide(counts[x])]

\* the loop of selector.LeastAssigned.SelectNext from position i (1-based)
\* with the running minimum min and its index
RECURSIVE LeastLoop(_, _, _, _, _)
LeastLoop(users, counts, i, min, index) ==
    IF i > Len(users)
    THEN index
    ELSE IF WideLess(WideGet(counts, users[i]), min)
         THEN LeastLoop(users, counts, i + 1, WideGet(counts, users[i]), i - 1)
         ELSE LeastLoop(users, counts, i + 1, min, index)

\* selector.LeastAssigned.SelectNext
LeastAssignedSelectNext(users, lastIndex, counts) ==
    IF Len(users) = 0
    THEN SelResult(-1, TRUE)
    ELSE SelResult(LeastLoop(users, counts, 1, Wide(MaxInt31), 0), FALSE)

\* strategy.SelectNext through the AssignmentStrategy interface, on the
\* counts that Assign read: the set of results the strategy created for
\* the name can give
SelectNext(strategy, users, lastIndex, counts) ==
    CASE strategy = "round_robin" ->
            {RoundRobinSelectNext(users, lastIndex, WideMap(counts))}
      [] strategy = "random" ->
            RandomSelectNext(users, lastIndex, WideMap(counts))
      [] strategy = "least_assigned" ->
            {LeastAssignedSelectNext(users, lastIndex, WideMap(counts))}

\* ComponentFactory.CreateAssignmentStrategy: TRUE when it returns an error
CreateAssignmentStrategyFails(strategy) == strategy \notin Strategies

\* ComponentFactory.CreateAvailabilityChecker: TRUE when it returns an error
CreateAvailabilityCheckerFails(checker) == checker \notin Checkers

\* ---------------------------------------------------- availability checkers
\* What the remote endpoint can answer to http.Get: a transport failure,
\* or a status code with a body that is either not a JSON object or an
\* object whose inOutLocation field is absent, not a string, or a string.
Bodies ==
    {[json |-> FALSE, field |-> "absent", value |-> ""],
     [json |-> TRUE, field |-> "absent", value |-> ""],
     [json |-> TRUE, field |-> "nonstring", value |-> ""]} \cup
    {[json |-> TRUE, field |-> "string", value |-> v] :
        v \in {"OFFICE", "OOO", "AWAY"}}

Responses ==
    {[transport |-> FALSE, code |-> 0,
      body |-> [json |-> FALSE, field |-> "absent", value |-> ""]]} \cup
    {[transport |-> TRUE, code |-> c, body |-> b] :
        c \in {200, 404}, b \in Bodies}

\* An availability result is the pair (ok, error) the Go method returns.
AvResult(ok, e) == [ok |-> ok, err |-> e]

\* InOutChecker.IsAvailable that takes a missing status field as unavailable
InOutIsAvailableStrict(username, resp) ==
    IF ~resp.transport
    THEN AvResult(FALSE, TRUE)
    ELSE IF ~resp.body.json
    THEN AvResult(FALSE, TRUE)
    ELSE IF resp.body.field # "string"
    THEN AvResult(FALSE, FALSE)
    ELSE IF resp.body.value \in InOutUnavailableStatuses
    THEN AvResult(FALSE, FALSE)
    ELSE AvResult(TRUE, FALSE)

\* availability.InOutChecker.IsAvailable on the response resp
InOutIsAvailable(username, resp) ==
    IF ~resp.transport
    THEN AvResult(FALSE, TRUE)
    ELSE IF ~resp.body.json
    THEN AvResult(FALSE, TRUE)
    ELSE IF resp.body.field # "string"
    THEN AvResult(TRUE, FALSE)
    ELSE IF resp.body.value \in InOutUnavailableStatuses
    THEN AvResult(FALSE, FALSE)
    ELSE AvResult(TRUE, FALSE)

\* availability.AlwaysAvailable.IsAvailable
AlwaysAvailableIsAvailable(username) == AvResult(TRUE, FALSE)

\* availChecker.IsAvailable through the AvailabilityChecker interface
IsAvailable(checker, username, resp) ==
    IF checker = "inout"
    THEN InOutIsAvailable(username, resp)
    ELSE AlwaysAvailableIsAvailable(username)

\* ----------------------------------------------------------- state stores
\* runner.loadAssigneeGroupConfig: TRUE when it returns an error
loadAssigneeGroupConfigFails(c) == ~c.exists

\* How a read of a state file can go wrong: "dir" when
\* config.GetGroupDataDir fails (the data directory cannot be made),
\* "read" when ioutil.ReadFile fails on a file (it cannot be opened or
\* read), "none" when neither fails.  A missing file is not a fault: it
\* is the empty log or the empty map.
ReadFaults == {"none", "dir", "read"}

\* what a read that meets fault adds to the number of faults met
Met(fault) == IF fault = "none" THEN 0 ELSE 1

\* The lines of index.log.  A line that ends with its newline is held as
\* what readLastIndex lines 283-299 get from it: n for the line
\* "<time> -- n" that writeLastIndex writes whole, and -1 for a line that
\* does not split into two parts at "--" or whose second part is not a
\* number.  The last line can be a cut line, one that a write that failed
\* part-way left without its newline:
\*   CutStamp    the beginning of a time stamp, no "--" yet
\*   CutSep      cut after the "--", nothing or blanks behind it
\*   CutJunk     one "--" and behind it text that is not a number
\*   CutGarbled  more than one "--"
\*   CutNum(n)   one "--" and behind it the number n, the newline missing
CutStamp == -2
CutSep == -3
CutJunk == -4
CutGarbled == -5
CutNum(n) == -(10 + n)

\* the line is a cut line
IsCut(line) == line <= -2

\* the line is a cut line that ends with a number
IsCutNum(line) == line <= -10

\* the number a cut line ends with
NumOf(line) == -line - 10

\* the log ends with a cut line
EndsCut(log) == Len(log) > 0 /\ IsCut(Last(log))

\* the log ends with a line cut behind a "--": the line that the next
\* write makes of it does not parse
CutPastSep(log) == EndsCut(log) /\ Last(log) # CutStamp

\* the beginnings of the time stamp of writeLastIndex line 317
\* (time.RFC3339, of a run in the year 2026) that are a number
StampDigits == {2, 20, 202, 2026}

\* the number of decimal digits of d
RECURSIVE Digits(_)
Digits(d) == IF d < 10 THEN 1 ELSE 1 + Digits(d \div 10)

\* ten to the power k
RECURSIVE Pow10(_)
Pow10(k) == IF k = 0 THEN 1 ELSE 10 * Pow10(k - 1)

\* the number whose text is the text of v followed by the text of d
Concat(v, d) == v * Pow10(Digits(d)) + d

\* The pieces of the text "<time> -- n\n" that a write of
\* writeLastIndex line 317 can have put into the file when it fails: the
\* digits d of the beginning of the time stamp, a longer beginning of the
\* time stamp, the text up to the "--", the text up to the number n.
Pieces(n) ==
    {[kind |-> "digits", val |-> d] : d \in StampDigits}
    \cup {[kind |-> "stamp", val |-> 0], [kind |-> "sep", val |-> 0],
          [kind |-> "num", val |-> n]}

\* the whole text "<time> -- n\n"
WholeLine(n) == [kind |-> "line", val |-> n]

\* what the piece is as a line of its own
NewLine(piece) ==
    CASE piece.kind \in {"digits", "stamp"} -> CutStamp
      [] piece.kind = "sep" -> CutSep
      [] piece.kind = "num" -> CutNum(piece.val)
      [] piece.kind = "line" -> piece.val

\* what the cut line becomes when the piece is written behind it
\* (readLastIndex lines 290-299 on the joined text)
JoinLine(cut, piece) ==
    IF cut = CutStamp THEN NewLine(piece)
    ELSE IF piece.kind = "line" THEN -1
    ELSE IF piece.kind \in {"sep", "num"} THEN CutGarbled
    ELSE IF cut = CutGarbled THEN CutGarbled
    ELSE IF piece.kind = "stamp" \/ cut = CutJunk THEN CutJunk
    ELSE IF cut = CutSep THEN CutNum(piece.val)
    ELSE CutNum(Concat(NumOf(cut), piece.val))

\* index.log after the text of the piece is appended to it (O_APPEND,
\* writeLastIndex lines 311-317)
AppendText(log, piece) ==
    IF EndsCut(log)
    THEN [log EXCEPT ![Len(log)] = JoinLine(Last(log), piece)]
    ELSE Append(log, NewLine(piece))

\* index.log after writeLastIndex has written the line of index n
AppendLine(log, n) == AppendText(log, WholeLine(n))

\* what a write of the line of index n that fails part-way can leave
CutAppends(log, n) == {AppendText(log, piece) : piece \in Pieces(n)}

\* runner.readLastIndex: the index of the last line of index.log; -1 when
\* the directory cannot be made, when the file cannot be read, when it
\* has no line and when its last line does not parse
readLastIndex(log, fault) ==
    IF fault = "dir" THEN -1
    ELSE IF fault = "read" THEN -1
    ELSE IF Len(log) = 0 THEN -1
    ELSE IF IsCutNum(Last(log)) THEN NumOf(Last(log))
    ELSE IF IsCut(Last(log)) THEN -1
    ELSE Last(log)

\* runner.readCounts: the empty map when the directory cannot be made;
\* otherwise the map in counts.json (empty when the file is missing or
\* cannot be read), with a zero entry added for every configured member
\* when the group configuration loads
readCounts(file, c, fault) ==
    IF fault = "dir" THEN EmptyMap
    ELSE LET counts == IF fault = "read" THEN EmptyMap ELSE file
         IN IF loadAssigneeGroupConfigFails(c)
            THEN counts
            ELSE [x \in (DOMAIN counts) \cup Range(c.users) |->
                     MapGet(counts, x)]

\* incrementCount that adds two
incrementCountTwice(file, c, user, fault) ==
    MapSet(readCounts(file, c, fault), user,
           MapGet(readCounts(file, c, fault), user) + 2)

\* runner.incrementCount, the map it writes: counts[user]++ on readCounts
incrementCount(file, c, user, fault) ==
    MapSet(readCounts(file, c, fault), user,
           MapGet(readCounts(file, c, fault), user) + 1)

\* the AssignmentLog entry runner.logAssignment appends
logAssignment(c, user, strategy, lastIndex, nextIndex, counts) ==
    [user |-> user, strategy |-> strategy, last_index |-> lastIndex,
     next_index |-> nextIndex, total_count |-> Len(c.users),
     user_count |-> MapGet(counts, user)]

\* a cut line of assignments.log: the beginning of an entry that a write
\* of logAssignment line 232 that failed part-way left without its newline
CutEntry ==
    [user |-> "", strategy |-> "cut", last_index |-> -1, next_index |-> -1,
     total_count |-> 0, user_count |-> 0]

\* a line of assignments.log that is not one entry: a cut line and the
\* text of a later entry behind it
GarbledEntry ==
    [user |-> "", strategy |-> "garbled", last_index |-> -1,
     next_index |-> -1, total_count |-> 0, user_count |-> 0]

\* assignments.log after logAssignment has written the line of the entry
\* (O_APPEND, lines 222-232)
AppendEntry(log, entry) ==
    IF Len(log) > 0 /\ Last(log) = CutEntry
    THEN [log EXCEPT ![Len(log)] = GarbledEntry]
    ELSE Append(log, entry)

\* assignments.log after a write of an entry that failed part-way
CutAppendEntry(log) ==
    IF Len(log) > 0 /\ Last(log) = CutEntry THEN log ELSE Append(log, CutEntry)

\* GetCounts that returns the persisted map as it is
GetCountsPersistedOnly(file, c, fault) ==
    IF loadAssigneeGroupConfigFails(c)
    THEN [err |-> "InvalidGroup", counts |-> EmptyMap, users |-> <<>>,
          fault |-> "none"]
    ELSE IF DOMAIN readCounts(file, c, fault) = {}
    THEN [err |-> "NoCountsFound", counts |-> EmptyMap, users |-> <<>>,
          fault |-> fault]
    ELSE [err |-> "nil", counts |-> file, users |-> c.users, fault |-> fault]

\* runner.GetCounts: the triple (counts, users, error) it returns, with
\* the fault its read of the counts met ("none" when it made no read)
GetCounts(file, c, fault) ==
    IF loadAssigneeGroupConfigFails(c)
    THEN [err |-> "InvalidGroup", counts |-> EmptyMap, users |-> <<>>,
          fault |-> "none"]
    ELSE IF DOMAIN readCounts(file, c, fault) = {}
    THEN [err |-> "NoCountsFound", counts |-> EmptyMap, users |-> <<>>,
          fault |-> fault]
    ELSE [err |-> "nil",
          counts |-> [x \in (DOMAIN readCounts(file, c, fault)) \cup
                              Range(c.users) |->
                         MapGet(readCounts(file, c, fault), x)],
          users |-> c.users, fault |-> fault]

\* ResetCounts that writes one for every configured member
ResetCountsMapOnes(c) == [x \in Range(c.users) |-> 1]

\* runner.ResetCounts, the map it writes: zero for every configured member
ResetCountsMap(c) == [x \in Range(c.users) |-> 0]

\* ------------------------------------------------------ command line
\* what rootCmd.RunE reports for the error err that the operation op
\* ("assign", "show" or "reset") returned: "none" when there is no error,
\* the invalid-group report with the --list-groups hint for an
\* InvalidGroupError, and otherwise the wrapping of the operation
InvalidGroupReport == "group does not exist, use --list-groups"

RunEReport(op, err) ==
    IF err \in {"ok", "nil"}
    THEN "none"
    ELSE IF err = "InvalidGroup"
    THEN InvalidGroupReport
    ELSE IF op = "show"
    THEN "failed to get counts"
    ELSE IF op = "reset"
    THEN "failed to reset counts"
    ELSE IF err = "ConfigError"
    THEN "configuration error"
    ELSE IF err = "SelectionError"
    THEN "selection error"
    ELSE IF err = "AvailabilityError"
    THEN "availability error"
    ELSE IF err = "NoAvailableAssignee"
    THEN "no available assignee"
    ELSE "unexpected error"

\* ------------------------------------------------------------------ state
VARIABLES
    conf,        \* the group's configuration file (fixed during a run)
    indexLog,    \* index.log: the appended positions, oldest first
    countsFile,  \* counts.json: the persisted map, empty when there is no file
    auditLog,    \* assignments.log: the appended entries, oldest first
    inv,         \* per process: the local state of its Assign invocation
    getResult,   \* what the last GetCounts returned
    resetResult, \* what the last ResetCounts returned
    ops,         \* operations started so far
    realRuns,    \* real (not dry-run) Assign invocations that have returned
    ioFault,     \* TRUE once a write of a file has failed
    starve,      \* per member index: the latest consecutive successful real
                 \* runs that neither chose it nor found it not available
    call,        \* the last direct call of a strategy or a checker: its
                 \* arguments and what it returned
    afterReset,  \* TRUE when getResult is the result of a GetCounts that
                 \* ran right after a successful ResetCounts
    resetPc,     \* "writing" while a ResetCounts has opened counts.json
                 \* and has not yet written it, "idle" otherwise
    readFaults,  \* reads of a state file that have met a fault so far
    cutWrites    \* appends to a log that have left a cut line so far

vars ==
    <<conf, indexLog, countsFile, auditLog, inv, getResult, resetResult, ops,
      realRuns, ioFault, starve, call, afterReset, resetPc, readFaults,
      cutWrites>>

NoResult ==
    [err |-> "none", counts |-> EmptyMap, users |-> <<>>, fault |-> "none"]

\* the persisted state an invocation can change
Disk == [indexLog |-> indexLog, countsFile |-> countsFile, auditLog |-> auditLog]

\* local state of a process that runs no invocation
IdleInv ==
    [pc |-> "idle", dryRun |-> FALSE, users |-> <<>>, strategy |-> "",
     checker |-> "", lastIndex |-> -1, counts |-> EmptyMap, cand |-> -1,
     nextIndex |-> -1, attempts |-> 0, checked |-> <<>>, user |-> "",
     printed |-> "", incCounts |-> EmptyMap, countWritten |-> FALSE,
     updatedCounts |-> EmptyMap, result |-> "none",
     pre |-> [indexLog |-> <<>>, countsFile |-> EmptyMap, auditLog |-> <<>>]]

Busy(p) == inv[p].pc \notin {"idle", "done"}

\* no strategy or checker was called directly
NoCall ==
    [fn |-> "none", users |-> <<>>, lastIndex |-> -1, counts |-> EmptyMap,
     username |-> "",
     resp |-> [transport |-> FALSE, code |-> 0,
               body |-> [json |-> FALSE, field |-> "absent", value |-> ""]],
     sel |-> SelResult(-1, FALSE), av |-> AvResult(FALSE, FALSE)]

Init ==
    /\ conf \in Configs
    /\ indexLog = <<>>
    /\ countsFile = EmptyMap
    /\ auditLog = <<>>
    /\ inv = [p \in Procs |-> IdleInv]
    /\ getResult = NoResult
    /\ resetResult = "none"
    /\ ops = 0
    /\ realRuns = 0
    /\ ioFault = FALSE
    /\ starve = [i \in 0..(Len(conf.users) - 1) |-> 0]
    /\ call = NoCall
    /\ afterReset = FALSE
    /\ resetPc = "idle"
    /\ readFaults = 0
    /\ cutWrites = 0

\* an invocation returns: its result is set and it runs no further step
Return(p, rec, res) == inv' = [inv EXCEPT ![p] = [rec EXCEPT !.pc = "done", !.result = res]]

\* the indices of the members that were checked and not reported available
NotAvailable(checked) ==
    {checked[j].index : j \in {k \in 1..Len(checked) : checked[k].res # "available"}}

IOErrors == {"WriteIndexError", "IncrementError", "LogError"}

\* the bookkeeping of the step that takes p's invocation from inv[p] to
\* inv'[p]: the counters realRuns, ioFault and starve follow the invocations
\* and are read by no action
Record(p) ==
    LET new == inv'[p]
        ends == new.pc = "done"
    IN /\ realRuns' = IF ends /\ ~new.dryRun THEN realRuns + 1 ELSE realRuns
       /\ ioFault' = (ioFault \/ (ends /\ new.result \in IOErrors))
       /\ starve' =
             IF ~ends \/ new.dryRun THEN starve
             ELSE IF new.result # "ok" THEN [i \in DOMAIN starve |-> 0]
             ELSE [i \in DOMAIN starve |->
                      IF i = new.nextIndex \/ i \in NotAvailable(new.checked)
                      THEN 0 ELSE starve[i] + 1]

\* CheckOutcome that assigns the last candidate of a scan that found nobody
CheckOutcomeAssignAnyway(r, dryRun, attempts, n) ==
    IF r.err THEN "error"
    ELSE IF r.ok THEN (IF dryRun THEN "dry" ELSE "commit")
    ELSE IF attempts + 1 < n THEN "advance"
    ELSE IF dryRun THEN "exhausted"
    ELSE "commit"

\* CheckOutcome with the dry-run flag ignored
CheckOutcomeNoDry(r, dryRun, attempts, n) ==
    IF r.err THEN "error"
    ELSE IF r.ok THEN "commit"
    ELSE IF attempts + 1 < n THEN "advance"
    ELSE "exhausted"

\* CheckOutcome with a loop that runs one iteration too many
CheckOutcomeLongLoop(r, dryRun, attempts, n) ==
    IF r.err THEN "error"
    ELSE IF r.ok THEN (IF dryRun THEN "dry" ELSE "commit")
    ELSE IF attempts + 1 < n + 1 THEN "advance"
    ELSE "exhausted"

\* CheckOutcome with a loop that stops one iteration early
CheckOutcomeShortLoop(r, dryRun, attempts, n) ==
    IF r.err THEN "error"
    ELSE IF r.ok THEN (IF dryRun THEN "dry" ELSE "commit")
    ELSE IF attempts + 1 < n - 1 THEN "advance"
    ELSE "exhausted"

\* CheckOutcome with a checker error taken for "unavailable"
CheckOutcomeSkipErr(r, dryRun, attempts, n) ==
    IF r.ok /\ ~r.err THEN (IF dryRun THEN "dry" ELSE "commit")
    ELSE IF attempts + 1 < n THEN "advance"
    ELSE "exhausted"

\* Assign lines 100-104 and 130-134: what one iteration of the loop does
\* with the checker's answer r after attempts earlier iterations over n
\* members
CheckOutcome(r, dryRun, attempts, n) ==
    IF r.err THEN "error"
    ELSE IF r.ok THEN (IF dryRun THEN "dry" ELSE "commit")
    ELSE IF attempts + 1 < n THEN "advance"
    ELSE "exhausted"

\* NextCandidate that does not wrap around the end of the list
NextCandidateNoWrap(nextIndex, n) == nextIndex + 1

\* NextCandidate that steps over a member
NextCandidateSkip(nextIndex, n) == GoMod(nextIndex + 2, n)

\* Assign line 130: the candidate after nextIndex
NextCandidate(nextIndex, n) == GoMod(nextIndex + 1, n)

\* ----------------------------------------------------------------- Assign
\* Assign lines 56-71: load the configuration, reject an empty member
\* list, read the last index.  The reads of the invocations can meet the
\* faults of the set faults.
AssignLoad(p, dry, faults) ==
    /\ ~Busy(p)
    /\ ops < MaxOps
    /\ ops' = ops + 1
    /\ getResult' = NoResult
    /\ resetResult' = "none"
    /\ LET rec == [IdleInv EXCEPT !.dryRun = dry, !.pre = Disk]
       IN IF loadAssigneeGroupConfigFails(conf)
          THEN Return(p, rec, "ConfigError") /\ UNCHANGED readFaults
          ELSE IF Len(conf.users) = 0
          THEN /\ Return(p, [rec EXCEPT !.users = conf.users], "ConfigError")
               /\ UNCHANGED readFaults
          ELSE \E fault \in faults :
                  /\ readFaults + Met(fault) <= MaxReadFaults
                  /\ readFaults' = readFaults + Met(fault)
                  /\ inv' = [inv EXCEPT ![p] =
                        [rec EXCEPT !.pc = "select", !.users = conf.users,
                                    !.strategy = conf.strategy,
                                    !.checker = conf.checker,
                                    !.lastIndex = readLastIndex(indexLog, fault)]]
    /\ afterReset' = FALSE
    /\ UNCHANGED <<cutWrites, call, resetPc, conf, indexLog, countsFile, auditLog>>
    /\ Record(p)

\* Assign lines 72-93: get the counts, create the strategy and the
\* checker, select the first candidate
AssignSelect(p, faults) ==
    /\ inv[p].pc = "select"
    /\ \E fault \in faults :
       LET rec == [inv[p] EXCEPT !.counts = readCounts(countsFile, conf, fault)]
       IN /\ readFaults + Met(fault) <= MaxReadFaults
          /\ readFaults' = readFaults + Met(fault)
          /\ IF DOMAIN rec.counts = {}
             THEN Return(p, [rec EXCEPT !.counts = EmptyMap], "GetCountsError")
             ELSE IF CreateAssignmentStrategyFails(rec.strategy)
             THEN Return(p, rec, "ConfigError")
             ELSE IF CreateAvailabilityCheckerFails(rec.checker)
             THEN Return(p, rec, "ConfigError")
             ELSE \E r \in SelectNext(rec.strategy, rec.users,
                                      rec.lastIndex, rec.counts) :
                     IF r.err
                     THEN Return(p, rec, "SelectionError")
                     ELSE inv' = [inv EXCEPT ![p] =
                             [rec EXCEPT !.pc = "scan", !.cand = r.index,
                                         !.nextIndex = r.index, !.attempts = 0]]
    /\ UNCHANGED <<cutWrites, call, afterReset, resetPc, conf, indexLog, countsFile, auditLog, getResult, resetResult, ops>>
    /\ Record(p)

\* Assign lines 97-107 and 130-134: one iteration of the availability
\* loop on users[nextIndex]
AssignCheck(p) ==
    /\ inv[p].pc = "scan"
    /\ \E resp \in Responses :
          LET cur == inv[p]
              n == Len(cur.users)
              user == cur.users[cur.nextIndex + 1]
              r == IsAvailable(cur.checker, user, resp)
              res == IF r.err THEN "err" ELSE IF r.ok THEN "available" ELSE "unavailable"
              rec == [cur EXCEPT !.user = user,
                         !.checked = Append(cur.checked,
                                            [index |-> cur.nextIndex, res |-> res])]
              adv == [rec EXCEPT !.nextIndex = NextCandidate(cur.nextIndex, n),
                                 !.attempts = cur.attempts + 1]
              out == CheckOutcome(r, cur.dryRun, cur.attempts, n)
          IN CASE out = "error" -> Return(p, rec, "AvailabilityError")
               [] out = "dry" -> Return(p, [rec EXCEPT !.printed = user], "ok")
               [] out = "commit" ->
                     inv' = [inv EXCEPT ![p] =
                                [rec EXCEPT !.printed = user, !.pc = "writeIndex"]]
               [] out = "advance" -> inv' = [inv EXCEPT ![p] = adv]
               [] out = "exhausted" -> Return(p, adv, "NoAvailableAssignee")
    /\ UNCHANGED <<cutWrites, readFaults, call, afterReset, resetPc, conf, indexLog, countsFile, auditLog, getResult, resetResult, ops>>
    /\ Record(p)

\* writeLastIndex whose failure does not stop the invocation
writeLastIndexGoesOn(p) ==
    /\ inv[p].pc = "writeIndex"
    /\ \E fail \in BOOLEAN :
          IF fail
          THEN /\ inv' = [inv EXCEPT ![p].pc = "incRead"]
               /\ UNCHANGED <<indexLog, cutWrites>>
          ELSE /\ indexLog' = AppendLine(indexLog, inv[p].nextIndex)
               /\ inv' = [inv EXCEPT ![p].pc = "incRead"]
               /\ UNCHANGED cutWrites
    /\ UNCHANGED <<readFaults, call, afterReset, resetPc, conf, countsFile, auditLog, getResult, resetResult, ops>>
    /\ Record(p)

\* runner.writeLastIndex as Assign calls it (lines 110-112): it appends
\* the line of the chosen index; when it fails (the directory cannot be
\* made, the file cannot be opened, the write fails) the log is as it
\* was or has a part of the line at its end
writeLastIndex(p) ==
    /\ inv[p].pc = "writeIndex"
    /\ \E fail \in BOOLEAN :
          IF fail
          THEN /\ Return(p, inv[p], "WriteIndexError")
               /\ \/ UNCHANGED <<indexLog, cutWrites>>
                  \/ /\ cutWrites < MaxCutWrites
                     /\ cutWrites' = cutWrites + 1
                     /\ indexLog' \in CutAppends(indexLog, inv[p].nextIndex)
          ELSE /\ indexLog' = AppendLine(indexLog, inv[p].nextIndex)
               /\ inv' = [inv EXCEPT ![p].pc = "incRead"]
               /\ UNCHANGED cutWrites
    /\ UNCHANGED <<readFaults, call, afterReset, resetPc, conf, countsFile, auditLog, getResult, resetResult, ops>>
    /\ Record(p)

\* runner.incrementCount lines 357-360: read the counts, add one
incrementCountRead(p, faults) ==
    /\ inv[p].pc = "incRead"
    /\ \E fault \in faults :
          /\ readFaults + Met(fault) <= MaxReadFaults
          /\ readFaults' = readFaults + Met(fault)
          /\ inv' = [inv EXCEPT ![p].pc = "incWrite",
                                ![p].incCounts =
                                   incrementCount(countsFile, conf, inv[p].user, fault)]
    /\ UNCHANGED <<cutWrites, call, afterReset, resetPc, conf, indexLog, countsFile, auditLog, getResult, resetResult, ops>>
    /\ Record(p)

\* the place of a name in the text of a counts map: json.MarshalIndent
\* writes the entries sorted by name
NamePos(x) == CHOOSE i \in 1..Len(Roster) : Roster[i] = x

\* ioutil.WriteFile, what a write that fails can leave in a file that was
\* opened and that holds the map file at the time of the write: a failed
\* write does not truncate.  It has written nothing, or the text of the
\* first entries of the map own over the text that was there, or the
\* whole of the map own: then the Write succeeded and the Close failed.
FailedWrite(own, file) ==
    {own} \cup
    (IF DOMAIN file = DOMAIN own
     THEN {[x \in DOMAIN file |-> IF NamePos(x) <= k THEN own[x] ELSE file[x]] :
              k \in 0..Len(Roster)}
     ELSE {file})

\* runner.incrementCount lines 362-372: ioutil.WriteFile opens the counts
\* file with O_TRUNC, which empties it; when the directory cannot be
\* made or the file cannot be opened nothing has changed
incrementCountOpen(p) ==
    /\ inv[p].pc = "incWrite"
    /\ \E fail \in BOOLEAN :
          IF fail
          THEN /\ Return(p, inv[p], "IncrementError")
               /\ UNCHANGED countsFile
          ELSE /\ countsFile' = EmptyMap
               /\ inv' = [inv EXCEPT ![p].pc = "incWriting"]
    /\ UNCHANGED <<cutWrites, readFaults, call, afterReset, resetPc, conf, indexLog, auditLog, getResult, resetResult, ops>>
    /\ Record(p)

\* runner.incrementCount lines 372-375: ioutil.WriteFile writes the map
\* in full into the file it has opened and closes it; a write that
\* fails leaves the file empty when it still is, or with what another
\* process wrote into it since the open, in part overwritten, or, when
\* it is the close that fails, with the whole map
incrementCountWrite(p) ==
    /\ inv[p].pc = "incWriting"
    /\ \E fail \in BOOLEAN :
          IF fail
          THEN /\ Return(p, inv[p], "IncrementError")
               /\ countsFile' \in FailedWrite(inv[p].incCounts, countsFile)
          ELSE /\ countsFile' = inv[p].incCounts
               /\ inv' = [inv EXCEPT ![p].pc = "updated",
                                     ![p].countWritten = TRUE]
    /\ UNCHANGED <<cutWrites, readFaults, call, afterReset, resetPc, conf, indexLog, auditLog, getResult, resetResult, ops>>
    /\ Record(p)

\* Assign lines 118-121: read the updated counts
AssignGetUpdatedCounts(p, faults) ==
    /\ inv[p].pc = "updated"
    /\ \E fault \in faults :
       LET rec == [inv[p] EXCEPT
                      !.updatedCounts = readCounts(countsFile, conf, fault)]
       IN /\ readFaults + Met(fault) <= MaxReadFaults
          /\ readFaults' = readFaults + Met(fault)
          /\ IF DOMAIN rec.updatedCounts = {}
             THEN Return(p, [rec EXCEPT !.updatedCounts = EmptyMap],
                         "UpdatedCountsError")
             ELSE inv' = [inv EXCEPT ![p] = [rec EXCEPT !.pc = "log"]]
    /\ UNCHANGED <<cutWrites, call, afterReset, resetPc, conf, indexLog, countsFile, auditLog, getResult, resetResult, ops>>
    /\ Record(p)

\* runner.logAssignment as Assign calls it (lines 124-128): it appends
\* the entry; when it fails before its write (the configuration does not
\* load, the directory cannot be made, the file cannot be opened) the log
\* is as it was, when its write fails the log is as it was or has a part
\* of the entry at its end
AssignLogAssignment(p) ==
    /\ inv[p].pc = "log"
    /\ \E fail \in BOOLEAN :
          IF loadAssigneeGroupConfigFails(conf)
          THEN /\ Return(p, inv[p], "LogError")
               /\ UNCHANGED <<auditLog, cutWrites>>
          ELSE IF fail
          THEN /\ Return(p, inv[p], "LogError")
               /\ \/ UNCHANGED <<auditLog, cutWrites>>
                  \/ /\ cutWrites < MaxCutWrites
                     /\ cutWrites' = cutWrites + 1
                     /\ auditLog' = CutAppendEntry(auditLog)
          ELSE /\ auditLog' = AppendEntry(auditLog,
                      logAssignment(conf, inv[p].user, inv[p].strategy,
                                    inv[p].lastIndex, inv[p].nextIndex,
                                    inv[p].updatedCounts))
               /\ UNCHANGED cutWrites
               /\ Return(p, inv[p], "ok")
    /\ UNCHANGED <<readFaults, call, afterReset, resetPc, conf, indexLog, countsFile, getResult, resetResult, ops>>
    /\ Record(p)

\* ------------------------------------------------- GetCounts, ResetCounts
\* Every operation is a run of the program: when one starts, the locals of
\* the invocations that have returned are gone; those of an invocation
\* still in progress in another process stay.
Forget == [p \in Procs |-> IF Busy(p) THEN inv[p] ELSE IdleInv]

\* runner.GetCounts
DoGetCounts ==
    /\ ops < MaxOps
    /\ ops' = ops + 1
    /\ \E fault \in ReadFaults :
          /\ readFaults + Met(fault) <= MaxReadFaults
          /\ getResult' = GetCounts(countsFile, conf, fault)
          /\ readFaults' = readFaults + Met(getResult'.fault)
    /\ resetResult' = "none"
    /\ inv' = Forget
    /\ UNCHANGED <<realRuns, ioFault, starve>>
    /\ UNCHANGED <<cutWrites, call, resetPc, conf, indexLog, countsFile, auditLog>>
    /\ afterReset' = (resetResult = "ok")

\* ResetCounts that zeroes the configured members inside the existing file
\* and keeps its other entries
ResetCountsMerge ==
    /\ resetPc = "idle"
    /\ ops < MaxOps
    /\ ops' = ops + 1
    /\ getResult' = NoResult
    /\ \E fail \in BOOLEAN :
          IF loadAssigneeGroupConfigFails(conf)
          THEN /\ resetResult' = "ConfigError"
               /\ UNCHANGED <<countsFile, resetPc>>
          ELSE IF fail
          THEN /\ resetResult' = "WriteError"
               /\ UNCHANGED <<countsFile, resetPc>>
          ELSE /\ resetResult' = "ok"
               /\ UNCHANGED resetPc
               /\ countsFile' =
                     [x \in (DOMAIN countsFile) \cup Range(conf.users) |->
                         IF x \in Range(conf.users) THEN 0 ELSE countsFile[x]]
    /\ ioFault' = (ioFault \/ resetResult' = "WriteError")
    /\ inv' = Forget
    /\ UNCHANGED <<realRuns, starve>>
    /\ UNCHANGED <<cutWrites, readFaults, call, conf, indexLog, auditLog>>
    /\ afterReset' = FALSE

\* runner.ResetCounts lines 168-189: load the configuration, build the
\* map, then ioutil.WriteFile opens the counts file with O_TRUNC, which
\* empties it; when the directory cannot be made or the file cannot be
\* opened nothing has changed
ResetCounts ==
    /\ resetPc = "idle"
    /\ ops < MaxOps
    /\ ops' = ops + 1
    /\ getResult' = NoResult
    /\ \E fail \in BOOLEAN :
          IF loadAssigneeGroupConfigFails(conf)
          THEN /\ resetResult' = "ConfigError"
               /\ UNCHANGED <<countsFile, resetPc>>
          ELSE IF fail
          THEN /\ resetResult' = "WriteError"
               /\ UNCHANGED <<countsFile, resetPc>>
          ELSE /\ resetResult' = "none"
               /\ resetPc' = "writing"
               /\ countsFile' = EmptyMap
    /\ ioFault' = (ioFault \/ resetResult' = "WriteError")
    /\ inv' = Forget
    /\ UNCHANGED <<realRuns, starve>>
    /\ UNCHANGED <<cutWrites, readFaults, call, conf, indexLog, auditLog>>
    /\ afterReset' = FALSE

\* runner.ResetCounts lines 189-193: ioutil.WriteFile writes the map in
\* full into the file it has opened and closes it; a write that fails
\* leaves the file empty when it still is, or with what an invocation
\* wrote into it since the open, in part overwritten, or, when it is
\* the close that fails, with the whole map
ResetCountsWrite ==
    /\ resetPc = "writing"
    /\ resetPc' = "idle"
    /\ \E fail \in BOOLEAN :
          IF fail
          THEN /\ resetResult' = "WriteError"
               /\ countsFile' \in FailedWrite(ResetCountsMap(conf), countsFile)
          ELSE resetResult' = "ok" /\ countsFile' = ResetCountsMap(conf)
    /\ ioFault' = (ioFault \/ resetResult' = "WriteError")
    /\ UNCHANGED <<realRuns, starve, inv, ops, getResult>>
    /\ UNCHANGED <<cutWrites, readFaults, call, afterReset, conf, indexLog, auditLog>>

\* ---------------------------------------------------------- specification
\* the steps of the invocation of p after its first, its reads meeting
\* the faults of the set faults
Step(p, faults) ==
    \/ AssignSelect(p, faults)
    \/ AssignCheck(p)
    \/ writeLastIndex(p)
    \/ incrementCountRead(p, faults)
    \/ incrementCountOpen(p)
    \/ incrementCountWrite(p)
    \/ AssignGetUpdatedCounts(p, faults)
    \/ AssignLogAssignment(p)

\* no operation is in progress
Quiet == resetPc = "idle" /\ \A p \in Procs : ~Busy(p)

\* one operation at a time, as the program runs when it is started from
\* one shell: a command starts when the one before it has returned
Next ==
    \/ \E dry \in BOOLEAN : Quiet /\ AssignLoad("p1", dry, ReadFaults)
    \/ Step("p1", ReadFaults)
    \/ Quiet /\ DoGetCounts
    \/ Quiet /\ ResetCounts
    \/ ResetCountsWrite

Spec == Init /\ [][Next]_vars

\* An invocation runs on one thread that executes its statements one after
\* the other: a started invocation is not left unfinished.  The runs of
\* this specification start at most MaxFairOps operations.
NextFair == Next /\ ops' <= MaxFairOps

FairSpec == Init /\ [][NextFair]_vars /\ WF_vars(Step("p1", ReadFaults))

\* ------------------------------------------------ concurrent invocations
\* Processes run Assign and ResetCounts on the same group with nothing
\* that serializes them: two invocations of Assign and one ResetCounts,
\* whose steps interleave in any order.
\* The groups are those whose file is sound and whose checker makes no
\* remote call, every invocation is a real run, and the reads meet no
\* fault: every map written holds the names of the group.
ConcInit ==
    /\ Init
    /\ conf.exists /\ Len(conf.users) >= 1
    /\ conf.strategy \in Strategies
    /\ conf.checker = "always_available"

\* the invocations of Assign started so far: those that have returned and
\* those in progress
ConcStarted == realRuns + Cardinality({q \in Procs : Busy(q)})

ConcNext ==
    \/ \E p \in Procs :
          /\ ConcStarted < Cardinality(Procs)
          /\ inv[p].pc = "idle"
          /\ AssignLoad(p, FALSE, {"none"})
    \/ \E p \in Procs : Step(p, {"none"})
    \/ ops = ConcStarted /\ ResetCounts
    \/ ResetCountsWrite

ConcSpec == ConcInit /\ [][ConcNext]_vars

\* ------------------------------------------------- dry runs and real runs
\* One invocation at a time, as in Spec, but the locals of the last dry run
\* (kept under "p1") and of the last real run (kept under "p2") stay side
\* by side.  The groups are those whose file is sound.  The runs of this
\* specification start at most MaxDryOps invocations.
DryInit ==
    /\ Init
    /\ conf.exists /\ Len(conf.users) >= 1
    /\ conf.strategy \in Strategies
    /\ conf.checker \in Checkers

DryNext ==
    /\ \/ (\A q \in Procs : ~Busy(q)) /\ AssignLoad("p1", TRUE, ReadFaults)
       \/ (\A q \in Procs : ~Busy(q)) /\ AssignLoad("p2", FALSE, ReadFaults)
       \/ \E p \in Procs : Step(p, ReadFaults)
    /\ ops' <= MaxDryOps

DrySpec == DryInit /\ [][DryNext]_vars

\* ------------------------------------------ a group file that was edited
\* Assign on a group whose member list may have changed since the files of
\* its data directory were written: index.log ends with a position that a
\* real run persisted under a list of up to MaxUsers + 1 members, and
\* counts.json holds counts of any of the first names.  The groups are
\* those whose file is sound.  The runs of this specification start at
\* most MaxLaterOps invocations.
LaterInit ==
    /\ conf \in {c \in Configs :
                    /\ c.exists /\ Len(c.users) >= 1
                    /\ c.strategy \in Strategies
                    /\ c.checker \in Checkers}
    /\ indexLog \in {<<>>} \cup {<<i>> : i \in 0..MaxUsers}
    /\ countsFile \in
          UNION {[d -> {MaxCount}] : d \in SUBSET Range(SubSeq(Roster, 1, MaxUsers))}
    /\ auditLog = <<>>
    /\ inv = [p \in Procs |-> IdleInv]
    /\ getResult = NoResult
    /\ resetResult = "none"
    /\ ops = 0
    /\ realRuns = 0
    /\ ioFault = FALSE
    /\ starve = [i \in 0..(Len(conf.users) - 1) |-> 0]
    /\ call = NoCall
    /\ afterReset = FALSE
    /\ resetPc = "idle"
    /\ readFaults = 0
    /\ cutWrites = 0

LaterNext ==
    /\ \/ \E dry \in BOOLEAN : AssignLoad("p1", dry, ReadFaults)
       \/ Step("p1", ReadFaults)
    /\ ops' <= MaxLaterOps

LaterSpec == LaterInit /\ [][LaterNext]_vars

\* ------------------------------------------------- runs without a reset
\* One invocation at a time, as in Spec, without the --reset-counts
\* command: real runs, dry runs and GetCounts calls from the empty state.
SeqNext ==
    \/ \E dry \in BOOLEAN : AssignLoad("p1", dry, ReadFaults)
    \/ Step("p1", ReadFaults)
    \/ Quiet /\ DoGetCounts

SeqSpec == Init /\ [][SeqNext]_vars

\* ------------------------------------------ strategies and checkers alone
\* Arguments of a direct call of SelectNext: any member list, a last index
\* from below -1 to beyond the list, and a counts map over the roster's
\* first names that may lack names (the empty map is also Go's nil map)
\* and may hold a negative count, the count 1<<31 - 1 and counts from
\* 1<<31 on.
LastIndexes == (0 - MaxUsers)..(MaxUsers + 1)

CountValues ==
    {Wide(n) : n \in (-1..MaxCount) \cup {MaxInt31}} \cup
    {[hi |-> 1, lo |-> n] : n \in 0..MaxCount}

CountMaps ==
    UNION {[d -> CountValues] : d \in SUBSET Range(SubSeq(Roster, 1, MaxUsers))}

Usernames == Names \cup {""}

\* a call of RoundRobin.SelectNext, as the tests of the selector package
\* make it
CallRoundRobin ==
    /\ call.fn = "none"
    /\ \E users \in UserLists, lastIndex \in LastIndexes, counts \in CountMaps :
          call' = [NoCall EXCEPT !.fn = "RoundRobin", !.users = users,
                      !.lastIndex = lastIndex, !.counts = counts,
                      !.sel = RoundRobinSelectNext(users, lastIndex, counts)]
    /\ UNCHANGED <<conf, indexLog, countsFile, auditLog, inv, getResult,
                   resetResult, ops, realRuns, ioFault, starve, afterReset,
                   resetPc, readFaults, cutWrites>>

\* a call of Random.SelectNext
CallRandom ==
    /\ call.fn = "none"
    /\ \E users \in UserLists, lastIndex \in LastIndexes, counts \in CountMaps :
          \E r \in RandomSelectNext(users, lastIndex, counts) :
             call' = [NoCall EXCEPT !.fn = "Random", !.users = users,
                         !.lastIndex = lastIndex, !.counts = counts, !.sel = r]
    /\ UNCHANGED <<conf, indexLog, countsFile, auditLog, inv, getResult,
                   resetResult, ops, realRuns, ioFault, starve, afterReset,
                   resetPc, readFaults, cutWrites>>

\* a call of LeastAssigned.SelectNext
CallLeastAssigned ==
    /\ call.fn = "none"
    /\ \E users \in UserLists, lastIndex \in LastIndexes, counts \in CountMaps :
          call' = [NoCall EXCEPT !.fn = "LeastAssigned", !.users = users,
                      !.lastIndex = lastIndex, !.counts = counts,
                      !.sel = LeastAssignedSelectNext(users, lastIndex, counts)]
    /\ UNCHANGED <<conf, indexLog, countsFile, auditLog, inv, getResult,
                   resetResult, ops, realRuns, ioFault, starve, afterReset,
                   resetPc, readFaults, cutWrites>>

\* a call of InOutChecker.IsAvailable that the endpoint answers with resp
CallInOut ==
    /\ call.fn = "none"
    /\ \E username \in Usernames, resp \in Responses :
          call' = [NoCall EXCEPT !.fn = "InOut", !.username = username,
                      !.resp = resp, !.av = InOutIsAvailable(username, resp)]
    /\ UNCHANGED <<conf, indexLog, countsFile, auditLog, inv, getResult,
                   resetResult, ops, realRuns, ioFault, starve, afterReset,
                   resetPc, readFaults, cutWrites>>

\* a call of AlwaysAvailable.IsAvailable
CallAlwaysAvailable ==
    /\ call.fn = "none"
    /\ \E username \in Usernames :
          call' = [NoCall EXCEPT !.fn = "AlwaysAvailable",
                      !.username = username,
                      !.av = AlwaysAvailableIsAvailable(username)]
    /\ UNCHANGED <<conf, indexLog, countsFile, auditLog, inv, getResult,
                   resetResult, ops, realRuns, ioFault, starve, afterReset,
                   resetPc, readFaults, cutWrites>>

\* the call has returned and its result was used: the next call can start
CallReturn ==
    /\ call.fn # "none"
    /\ call' = NoCall
    /\ UNCHANGED <<conf, indexLog, countsFile, auditLog, inv, getResult,
                   resetResult, ops, realRuns, ioFault, starve, afterReset,
                   resetPc, readFaults, cutWrites>>

PureInit == Init /\ conf = AbsentConf

PureNext ==
    \/ CallRoundRobin
    \/ CallRandom
    \/ CallLeastAssigned
    \/ CallInOut
    \/ CallAlwaysAvailable
    \/ CallReturn

PureSpec == PureInit /\ [][PureNext]_vars

\* ------------------------------------------- the counts commands alone
\* GetCounts and ResetCounts read only the member list of the group file,
\* so one strategy and one checker stand for all.
StoreConfigs ==
    {c \in Configs : c.strategy \in {"", "round_robin"}
                     /\ c.checker \in {"", "always_available"}}

\* counts.json as earlier runs can have left it: absent or empty, or with
\* counts of members, some of whom the group file may no longer list
StoreInit ==
    /\ conf \in StoreConfigs
    /\ indexLog = <<>>
    /\ countsFile \in
          UNION {[d -> 0..MaxCount] : d \in SUBSET Range(SubSeq(Roster, 1, MaxUsers))}
    /\ auditLog = <<>>
    /\ inv = [p \in Procs |-> IdleInv]
    /\ getResult = NoResult
    /\ resetResult = "none"
    /\ ops = 0
    /\ realRuns = 0
    /\ ioFault = FALSE
    /\ starve = [i \in 0..(Len(conf.users) - 1) |-> 0]
    /\ call = NoCall
    /\ afterReset = FALSE
    /\ resetPc = "idle"
    /\ readFaults = 0
    /\ cutWrites = 0

StoreNext ==
    \/ Quiet /\ DoGetCounts
    \/ Quiet /\ ResetCounts
    \/ ResetCountsWrite

StoreSpec == StoreInit /\ [][StoreNext]_vars

\* ----------------------------------------------------------------- claims
\* the invocation of p has found a member available in a real run or in a
\* dry run: the username was emitted
Chosen(p) == inv[p].printed # ""

Finished(p) == inv[p].pc = "done"

CheckedIndices(p) == {inv[p].checked[j].index : j \in 1..Len(inv[p].checked)}

\* C1: an Assign with dryRun = true leaves the position history, the count
\* map and the audit log as they were before the call, at every point of
\* the invocation and whatever its result is.
C1_DryRunLeavesDisk ==
    \A p \in Procs :
        (inv[p].pc # "idle" /\ inv[p].dryRun) => Disk = inv[p].pre

\* a dry run that found a member available after an earlier real run had
\* written all three files
C1_Witness ==
    \E p \in Procs :
        /\ Finished(p) /\ inv[p].dryRun /\ inv[p].result = "ok"
        /\ Len(indexLog) > 0 /\ Len(auditLog) > 0 /\ DOMAIN countsFile # {}

\* C2: a real Assign that returns an error leaves the latest persisted
\* position as it was before the invocation.
C2_PositionOnlyOnSuccess ==
    \A p \in Procs :
        (Finished(p) /\ ~inv[p].dryRun /\ inv[p].result # "ok") =>
            readLastIndex(indexLog, "none") = readLastIndex(inv[p].pre.indexLog, "none")

\* C3: after a real Assign, the position was appended if and only if the
\* assignee's count was incremented.
C3_PositionAndCountTogether ==
    \A p \in Procs :
        (Finished(p) /\ ~inv[p].dryRun) =>
            ((Len(indexLog) = Len(inv[p].pre.indexLog) + 1) <=>
             (MapGet(countsFile, inv[p].user) =
                  MapGet(inv[p].pre.countsFile, inv[p].user) + 1))

ScanEnded(p) ==
    \/ Chosen(p)
    \/ /\ Finished(p)
       /\ inv[p].result \in {"AvailabilityError", "NoAvailableAssignee"}

C5_ScanBoundedAndEnds ==
    /\ [](\A p \in Procs :
            /\ Len(inv[p].checked) <= Len(inv[p].users)
            /\ Cardinality(CheckedIndices(p)) = Len(inv[p].checked)
            /\ inv[p].result = "NoAvailableAssignee" =>
                  Len(inv[p].checked) = Len(inv[p].users))
    /\ \A p \in Procs : (inv[p].pc = "scan") ~> ScanEnded(p)

\* a scan that checked every member of a list of three and found none
C5_Witness ==
    \E p \in Procs :
        /\ Finished(p) /\ inv[p].result = "NoAvailableAssignee"
        /\ Len(inv[p].users) = 3 /\ Len(inv[p].checked) = 3

\* C6: under round_robin with n members, an index that is reported
\* available at every check made on it is chosen in at least one of any n
\* consecutive successful real runs: no index goes n consecutive successful
\* real runs without being chosen or found not available.
C6_NoStarvation ==
    (conf.exists /\ conf.strategy = "round_robin") =>
        \A i \in DOMAIN starve : starve[i] < Len(conf.users)

\* C7: with round_robin, always_available, n >= 1 members and no prior
\* state, when the only operations so far are k >= 1 real runs and no write
\* of a file failed, the k-th run succeeded and assigned
\* members[(k-1) mod n], the latest position is (k-1) mod n and the audit
\* log holds k entries; after the first run the first member's count is 1
\* and every other count is 0.
C7_RoundRobinReference ==
    (/\ conf.exists /\ conf.strategy = "round_robin"
     /\ conf.checker = "always_available" /\ Len(conf.users) >= 1
     /\ ~ioFault /\ realRuns >= 1 /\ ops = realRuns) =>
        LET k == realRuns
            n == Len(conf.users)
        IN /\ \E p \in Procs : Finished(p)
           /\ \A p \in Procs :
                 Finished(p) =>
                     /\ inv[p].result = "ok"
                     /\ inv[p].user = conf.users[((k - 1) % n) + 1]
           /\ readLastIndex(indexLog, "none") = (k - 1) % n
           /\ Len(auditLog) = k
           /\ k = 1 =>
                 \A u \in Names :
                     MapGet(countsFile, u) = (IF u = conf.users[1] THEN 1 ELSE 0)

\* C8: the members are checked in the cyclic order candidate,
\* candidate + 1, ... from the strategy's result, every checked member
\* before the last one was found unavailable, and when a member is chosen
\* it is the last one checked and it was reported available.
C8_FirstAvailableInCyclicOrder ==
    \A p \in Procs :
        LET c == inv[p]
            n == Len(c.users)
            m == Len(c.checked)
        IN /\ (c.pc \notin {"idle", "select"} /\ m > 0) =>
                 c.cand \in {r.index :
                                r \in SelectNext(c.strategy, c.users, c.lastIndex, c.counts)}
           /\ \A j \in 1..m : c.checked[j].index = (c.cand + j - 1) % n
           /\ \A j \in 1..(m - 1) : c.checked[j].res = "unavailable"
           /\ Chosen(p) =>
                 /\ m >= 1
                 /\ c.checked[m].res = "available"
                 /\ c.checked[m].index = c.nextIndex
                 /\ c.user = c.users[c.nextIndex + 1]
                 /\ c.printed = c.user

\* least_assigned with counts alice 1, bob 0, charlie 1: bob is the
\* candidate, is unavailable, and charlie is chosen
C8_Witness ==
    \E p \in Procs :
        /\ inv[p].strategy = "least_assigned"
        /\ inv[p].users = <<"alice", "bob", "charlie">>
        /\ MapGet(inv[p].counts, "alice") = 1
        /\ MapGet(inv[p].counts, "bob") = 0
        /\ MapGet(inv[p].counts, "charlie") = 1
        /\ inv[p].checked = <<[index |-> 1, res |-> "unavailable"],
                              [index |-> 2, res |-> "available"]>>
        /\ Chosen(p) /\ inv[p].user = "charlie"

\* C9: a checker error ends the invocation at once with AvailabilityError
\* for the member that was being checked: the erroring check is the last
\* check of the invocation.
C9_AvailabilityErrorStops ==
    \A p \in Procs :
        \A j \in 1..Len(inv[p].checked) :
            inv[p].checked[j].res = "err" =>
                /\ j = Len(inv[p].checked)
                /\ Finished(p)
                /\ inv[p].result = "AvailabilityError"
                /\ inv[p].user = inv[p].users[inv[p].checked[j].index + 1]

\* the second of three members answers with an error: the third is never
\* checked
C9_Witness ==
    \E p \in Procs :
        /\ Finished(p) /\ inv[p].result = "AvailabilityError"
        /\ Len(inv[p].users) = 3
        /\ Len(inv[p].checked) = 2

\* C10: Assign returns NoAvailableAssignee exactly when every member index
\* was checked and every check answered "unavailable" without error.
AllCheckedUnavailable(p) ==
    /\ Len(inv[p].users) >= 1
    /\ CheckedIndices(p) = 0..(Len(inv[p].users) - 1)
    /\ \A j \in 1..Len(inv[p].checked) : inv[p].checked[j].res = "unavailable"

C10_NoAvailableExactly ==
    \A p \in Procs :
        /\ inv[p].result = "NoAvailableAssignee" => Finished(p)
        /\ Finished(p) =>
              (inv[p].result = "NoAvailableAssignee" <=> AllCheckedUnavailable(p))

\* none of the two members of a list is available
C10_Witness ==
    \E p \in Procs :
        /\ Finished(p) /\ inv[p].result = "NoAvailableAssignee"
        /\ Len(inv[p].users) = 2

\* ------------------------------------------------ claims on direct calls
\* C11: InOutChecker.IsAvailable returns an error, never true or false,
\* whenever the endpoint answers with a status other than success, whatever
\* the body is.
C11_NonSuccessStatusIsError ==
    (call.fn = "InOut" /\ call.resp.transport /\ call.resp.code # 200)
        => call.av.err

\* ------------------------------------------- claims on the counts commands
\* every configured member has an entry of value zero in the counts that
\* the last GetCounts returned
AllMembersZero ==
    /\ getResult.err = "nil"
    /\ \A m \in Range(conf.users) :
          m \in DOMAIN getResult.counts /\ getResult.counts[m] = 0

\* C12 as stated: GetCounts right after a successful ResetCounts returns,
\* for every group whose configuration loads, every configured member at
\* zero.
C12_ResetThenGetAllZero == afterReset => AllMembersZero

\* C12: GetCounts right after a successful ResetCounts fails with "no
\* counts found" when the group has no member and when the data directory
\* cannot be made; in every other case it returns the configured members
\* in their order, every one at zero.
C12_ResetThenGetAllZeroWithMembers ==
    afterReset =>
        IF Len(conf.users) = 0 \/ getResult.fault = "dir"
        THEN getResult.err = "NoCountsFound"
        ELSE AllMembersZero /\ getResult.users = conf.users

\* GetCounts after the reset of a group of two or more members, its read
\* meeting no fault
C12_Witness ==
    /\ afterReset
    /\ Len(conf.users) >= 2
    /\ getResult.fault = "none"
    /\ AllMembersZero
    /\ getResult.users = conf.users

\* the last operation was a GetCounts of a group whose configuration loads
\* and whose count store has no entry
GotFromEmptyStore ==
    /\ getResult # NoResult
    /\ ~loadAssigneeGroupConfigFails(conf)
    /\ countsFile = EmptyMap

\* C13: GetCounts on a group whose configuration loads and whose persisted
\* count store is entirely empty fails with "no counts found".
C13_EmptyStoreFails == GotFromEmptyStore => getResult.err = "NoCountsFound"

\* C14: a GetCounts that succeeds returns the member list in its configured
\* order and a map with an entry for every configured member, zero when
\* the member has no persisted count and the persisted count when the
\* counts file was read; when the configuration cannot be loaded GetCounts
\* fails with InvalidGroup.
C14_GetCountsResult ==
    /\ getResult.err = "nil" =>
          /\ getResult.users = conf.users
          /\ \A m \in Range(conf.users) :
                /\ m \in DOMAIN getResult.counts
                /\ m \notin DOMAIN countsFile => getResult.counts[m] = 0
                /\ getResult.fault = "none" =>
                      getResult.counts[m] = MapGet(countsFile, m)
    /\ (getResult # NoResult /\ loadAssigneeGroupConfigFails(conf)) =>
          getResult.err = "InvalidGroup"
    /\ getResult.err = "InvalidGroup" => loadAssigneeGroupConfigFails(conf)

\* one member has a persisted count, another has none and is shown at zero
C14_Witness ==
    /\ getResult.err = "nil"
    /\ getResult.fault = "none"
    /\ \E m \in Range(conf.users) : m \in DOMAIN countsFile /\ countsFile[m] > 0
    /\ \E m \in Range(conf.users) :
          m \notin DOMAIN countsFile /\ getResult.counts[m] = 0

\* the count of the member at index i (0-based) in the counts map of the
\* call, zero when the map has no entry for the name
CallCount(i) == WideGet(call.counts, call.users[i + 1])

\* C15: for every non-empty member list and every counts map (a missing
\* entry counts as zero), LeastAssigned.SelectNext returns without error
\* the lowest index whose member has the minimum count, whatever lastIndex.
C15_LeastAssignedLowestMinimum ==
    (call.fn = "LeastAssigned" /\ Len(call.users) >= 1) =>
        /\ ~call.sel.err
        /\ call.sel.index \in 0..(Len(call.users) - 1)
        /\ \A j \in 0..(Len(call.users) - 1) :
              ~WideLess(CallCount(j), CallCount(call.sel.index))
        /\ \A j \in 0..(call.sel.index - 1) :
              WideLess(CallCount(call.sel.index), CallCount(j))

\* C16: for every non-empty member list and every lastIndex from -1 to
\* len-1, RoundRobin.SelectNext returns (lastIndex + 1) mod len, whatever
\* the counts are.
C16_RoundRobinSuccessor ==
    (/\ call.fn = "RoundRobin"
     /\ Len(call.users) >= 1
     /\ call.lastIndex \in -1..(Len(call.users) - 1)) =>
        call.sel = SelResult((call.lastIndex + 1) % Len(call.users), FALSE)

\* after the last of three members comes the first, though the first has
\* the highest count
C16_Witness ==
    /\ call.fn = "RoundRobin"
    /\ call.users = <<"alice", "bob", "charlie">>
    /\ call.lastIndex = 2
    /\ WideLess(WideGet(call.counts, "bob"), WideGet(call.counts, "alice"))
    /\ call.sel = SelResult(0, FALSE)

\* C17: RoundRobin, Random and LeastAssigned each return an error for an
\* empty member list, and for every non-empty list return no error and an
\* index from 0 to len-1, whatever lastIndex and counts are.
C17_SelectorsInRange ==
    call.fn \in {"RoundRobin", "Random", "LeastAssigned"} =>
        IF Len(call.users) = 0
        THEN call.sel.err
        ELSE /\ ~call.sel.err
             /\ call.sel.index \in 0..(Len(call.users) - 1)

\* C18: Random.SelectNext on a non-empty list returns without error an
\* index from 0 to len-1, and every index of every list is a result that a
\* call can return, so that repeated calls on a list of two or more reach
\* more than one index.
C18_RandomAnyIndex ==
    /\ (call.fn = "Random" /\ Len(call.users) >= 1) =>
          /\ ~call.sel.err
          /\ call.sel.index \in 0..(Len(call.users) - 1)
    /\ call.fn = "none" =>
          \A users \in UserLists : \A i \in 0..(Len(users) - 1) :
              ENABLED (/\ CallRandom
                       /\ call'.users = users
                       /\ call'.sel = SelResult(i, FALSE))

\* the call of the repository's test, returning the last of three indices
C18_Witness ==
    /\ call.fn = "Random"
    /\ call.users = <<"alice", "bob", "charlie">>
    /\ call.lastIndex = -1
    /\ call.counts = EmptyMap
    /\ call.sel = SelResult(2, FALSE)

\* C19: for a response that decodes, InOutChecker.IsAvailable returns true
\* when the status field is absent, false when the status is one of the
\* configured unavailable statuses and true for any other status, each
\* without error; AlwaysAvailable.IsAvailable returns true without error
\* for every username, the empty one included.
C19_CheckerAnswers ==
    /\ (call.fn = "InOut" /\ call.resp.transport /\ call.resp.body.json) =>
          /\ ~call.av.err
          /\ call.resp.body.field = "absent" => call.av.ok
          /\ call.resp.body.field = "string" =>
                (call.av.ok <=>
                    call.resp.body.value \notin InOutUnavailableStatuses)
    /\ call.fn = "AlwaysAvailable" => call.av = AvResult(TRUE, FALSE)

\* the endpoint answers with success and the status AWAY: not available
C19_Witness ==
    /\ call.fn = "InOut"
    /\ call.resp.code = 200
    /\ call.resp.body.field = "string"
    /\ call.resp.body.value = "AWAY"
    /\ call.av = AvResult(FALSE, FALSE)

\* ------------------------------------------- claims on the configuration
\* the group file is absent, lists no member, or names a strategy or a
\* checker that is none of the recognised names
BadConf ==
    \/ ~conf.exists
    \/ Len(conf.users) = 0
    \/ conf.strategy \notin {"round_robin", "random", "least_assigned"}
    \/ conf.checker \notin {"inout", "always_available"}

\* C20: Assign fails with ConfigError when the group file is absent, lists
\* no member, or names an unrecognised strategy or checker, and then makes
\* no availability check; with a file that has none of these defects it
\* never fails with ConfigError.
C20_BadConfigIsConfigError ==
    \A p \in Procs :
        /\ BadConf =>
              /\ inv[p].checked = <<>>
              /\ inv[p].printed = ""
              /\ Finished(p) => inv[p].result = "ConfigError"
        /\ (Finished(p) /\ inv[p].result = "ConfigError") => BadConf

\* ------------------------------------------- claims on the command line
\* C21: naming a group that has no configuration file is reported as the
\* invalid-group error with the --list-groups hint by every group
\* operation: plain assignment, --show-counts and --reset-counts.
C21_MissingGroupIsInvalidGroup ==
    ~conf.exists =>
        /\ \A p \in Procs :
              Finished(p) =>
                  RunEReport("assign", inv[p].result) = InvalidGroupReport
        /\ getResult # NoResult =>
              RunEReport("show", getResult.err) = InvalidGroupReport
        /\ resetResult # "none" =>
              RunEReport("reset", resetResult) = InvalidGroupReport

\* ------------------------------------------- claims on concurrent runs
\* the sum of the counts of the map m over the names in S
RECURSIVE SumOver(_, _)
SumOver(m, S) ==
    IF S = {} THEN 0
    ELSE LET x == CHOOSE y \in S : TRUE
         IN m[x] + SumOver(m, S \ {x})

SumCounts(m) == SumOver(m, DOMAIN m)

BothSucceeded == \A p \in Procs : Finished(p) /\ inv[p].result = "ok"

Answers(p) ==
    {<<inv[p].users[inv[p].checked[j].index + 1], inv[p].checked[j].res>> :
        j \in 1..Len(inv[p].checked)}

\* no member got two different answers in the two invocations
SameAnswers ==
    \A a, b \in Answers("p1") \cup Answers("p2") : a[1] = b[1] => a[2] = b[2]

\* the scan of the invocation of p is over
Decided(p) == inv[p].pc \notin {"idle", "select", "scan"}

\* C23: with round_robin or least_assigned and answers of the checker that
\* do not change, a dry run and a real run that start from the same
\* persisted state make the same checks and name the same user; and no
\* step of a dry run changes the persisted state, so that dry runs made
\* first change neither the user the later real run assigns nor the state
\* it leaves.
C23_DryRunNamesRealChoice ==
    /\ []((/\ Finished("p1") /\ Decided("p2")
           /\ inv["p1"].pre = inv["p2"].pre
           /\ conf.strategy \in {"round_robin", "least_assigned"}
           /\ SameAnswers) =>
              /\ inv["p2"].checked = inv["p1"].checked
              /\ inv["p2"].printed = inv["p1"].printed)
    /\ [][inv'["p1"] # inv["p1"] => Disk' = Disk]_vars

\* ------------------------------------------------ claims on the commit
\* C24: an Assign invocation that has returned, with success or with an
\* error, has lowered no count and has changed no count but that of the
\* user it assigns, which it raised by one.
C24_CountsOnlyGrowByAssign ==
    \A p \in Procs :
        Finished(p) =>
            \A n \in Names :
                /\ MapGet(countsFile, n) >= MapGet(inv[p].pre.countsFile, n)
                /\ MapGet(countsFile, n) # MapGet(inv[p].pre.countsFile, n) =>
                      /\ n = inv[p].user
                      /\ MapGet(countsFile, n) =
                            MapGet(inv[p].pre.countsFile, n) + 1

\* what the invocation of p has changed so far in the persisted state it
\* started from
IndexTouched(p) == indexLog # inv[p].pre.indexLog

\* index.log is the log of the start with the whole line of the chosen
\* index behind it: no write that fails leaves that
IndexAppended(p) ==
    indexLog = AppendLine(inv[p].pre.indexLog, inv[p].nextIndex)

CountTouched(p) == countsFile # inv[p].pre.countsFile

\* incrementCount has written its map into counts.json and returned no
\* error
WroteCount(p) == inv[p].countWritten

\* the assignee's count in counts.json is its count before the run plus one
CountGrew(p) ==
    /\ inv[p].user # ""
    /\ MapGet(countsFile, inv[p].user) =
          MapGet(inv[p].pre.countsFile, inv[p].user) + 1

\* the read of incrementCount returned what counts.json held
ReadPersisted(p) ==
    inv[p].incCounts =
        incrementCount(inv[p].pre.countsFile, conf, inv[p].user, "none")

AuditTouched(p) == auditLog # inv[p].pre.auditLog

\* assignments.log is the log of the start with the whole line of the
\* entry of this run behind it
AuditAppended(p) ==
    auditLog =
        AppendEntry(inv[p].pre.auditLog,
                    logAssignment(conf, inv[p].user, inv[p].strategy,
                                  inv[p].lastIndex, inv[p].nextIndex,
                                  inv[p].updatedCounts))

\* C25: in a real run the username is emitted, then the position is
\* appended, then the count is incremented, then the audit entry is
\* appended; a step that fails prevents the later ones, so that an
\* invocation that returns a write error has emitted the username.
\* Nothing is in index.log that was not there before the username was
\* emitted; counts.json is as it was until the whole line of the position
\* is in index.log; assignments.log is as it was until incrementCount has
\* written its map and returned no error, and then counts.json holds that
\* map, with the assignee's count before the run plus one when the read
\* of incrementCount returned what the file held.  After a failed write
\* of the position counts.json and assignments.log are as they were and
\* the line of the position is not in index.log; after a failed increment
\* the line of the position is there and assignments.log is as it was;
\* after a failed re-read of the counts or a failed write of the entry
\* the count is written and the line of the entry is not in
\* assignments.log; after a success it is.
C25_CommitOrder ==
    \A p \in Procs :
        (inv[p].pc # "idle" /\ ~inv[p].dryRun) =>
            /\ IndexTouched(p) => inv[p].printed # ""
            /\ (CountTouched(p) \/ WroteCount(p)) => IndexAppended(p)
            /\ WroteCount(p) => countsFile = inv[p].incCounts
            /\ (WroteCount(p) /\ ReadPersisted(p)) => CountGrew(p)
            /\ AuditTouched(p) => WroteCount(p)
            /\ inv[p].result = "WriteIndexError" =>
                  /\ inv[p].printed # ""
                  /\ ~IndexAppended(p) /\ ~CountTouched(p) /\ ~AuditTouched(p)
            /\ inv[p].result = "IncrementError" =>
                  IndexAppended(p) /\ ~WroteCount(p) /\ ~AuditTouched(p)
            /\ inv[p].result = "UpdatedCountsError" =>
                  WroteCount(p) /\ ~AuditTouched(p)
            /\ inv[p].result = "LogError" =>
                  WroteCount(p) /\ ~AuditAppended(p)
            /\ inv[p].result = "ok" => AuditAppended(p)

\* the username was emitted and the position appended, then the write of
\* the counts failed: Assign returns an error and no audit entry exists
C25_Witness ==
    \E p \in Procs :
        /\ Finished(p) /\ inv[p].result = "IncrementError"
        /\ inv[p].printed # ""
        /\ IndexAppended(p) /\ ~WroteCount(p) /\ ~AuditTouched(p)

\* C26: the audit entry a real run appends records the assignee and the
\* strategy, the position read at the start of the run as last index (-1
\* when there was none), the chosen index as next index, the number of
\* configured members as total count, and the assignee's count before the
\* run plus one as user count; the entries before it stay as they were.
C26_AuditEntryFields ==
    \A p \in Procs :
        (Finished(p) /\ inv[p].result = "ok" /\ ~inv[p].dryRun) =>
            /\ auditLog = Append(inv[p].pre.auditLog, Last(auditLog))
            /\ Last(auditLog) =
                  [user |-> conf.users[inv[p].nextIndex + 1],
                   strategy |-> conf.strategy,
                   last_index |-> readLastIndex(inv[p].pre.indexLog, "none"),
                   next_index |-> inv[p].nextIndex,
                   total_count |-> Len(conf.users),
                   user_count |->
                       MapGet(inv[p].pre.countsFile,
                              conf.users[inv[p].nextIndex + 1]) + 1]
            /\ inv[p].printed = Last(auditLog).user

\* ------------------------------------------- claims on the state files
\* the invocation of p started with no position and no counts persisted,
\* on a group that has members
FreshStart(p) ==
    /\ inv[p].pc # "idle"
    /\ conf.exists /\ Len(conf.users) >= 1
    /\ inv[p].pre.indexLog = <<>>
    /\ inv[p].pre.countsFile = EmptyMap

\* C27: Assign on a group with members that has no position file and no
\* counts file does not fail on reading its state: it takes the position
\* as unset (-1) and the count of every configured member as zero.
C27_MissingFilesAreNoPriorState ==
    \A p \in Procs :
        FreshStart(p) =>
            /\ inv[p].lastIndex = -1
            /\ inv[p].result # "GetCountsError"
            /\ inv[p].pc # "select" =>
                  inv[p].counts = [n \in Range(conf.users) |-> 0]

\* C28: after a ResetCounts that succeeded, counts.json holds one entry
\* per configured member name, each zero, and no entry for any other name,
\* whatever it held before.
C28_ResetWritesExactlyMembers ==
    resetResult = "ok" =>
        /\ DOMAIN countsFile = Range(conf.users)
        /\ \A n \in DOMAIN countsFile : countsFile[n] = 0

\* the reset of a group of two members
C28_Witness ==
    /\ resetResult = "ok"
    /\ ops = 1
    /\ conf.users = <<"alice", "bob">>
    /\ countsFile = [n \in {"alice", "bob"} |-> 0]

\* C29: an Assign invocation that ends with ConfigError, AvailabilityError
\* or NoAvailableAssignee leaves index.log, counts.json and assignments.log
\* as they were when it started, and an invocation that has written any of
\* them has found a member available before.
C29_ErrorRunsWriteNothing ==
    \A p \in Procs :
        /\ (/\ Finished(p)
            /\ inv[p].result \in
                  {"ConfigError", "AvailabilityError", "NoAvailableAssignee"})
              => Disk = inv[p].pre
        /\ (inv[p].pc # "idle" /\ Disk # inv[p].pre) =>
              /\ inv[p].checked # <<>>
              /\ Last(inv[p].checked).res = "available"

\* a run that follows an assignment finds nobody available and leaves the
\* three files of the assignment as they were
C29_Witness ==
    \E p \in Procs :
        /\ Finished(p) /\ inv[p].result = "NoAvailableAssignee"
        /\ ~inv[p].dryRun
        /\ Len(indexLog) = 1 /\ Len(auditLog) = 1
        /\ Disk = inv[p].pre

\* the strategy of the invocation of p has returned a first candidate
Selected(p) ==
    /\ inv[p].pc \notin {"idle", "select"}
    /\ inv[p].result \notin {"ConfigError", "GetCountsError", "SelectionError"}

\* C30: whatever position a real run persisted before and whatever
\* non-empty member list the invocation loads, shorter or longer than the
\* list the position was written under, the candidate the strategy
\* returns, every index the scan reads a member at and every index it
\* moves to lie from 0 to len-1.
C30_IndicesInRange ==
    \A p \in Procs :
        Selected(p) =>
            /\ inv[p].cand \in 0..(Len(inv[p].users) - 1)
            /\ inv[p].nextIndex \in 0..(Len(inv[p].users) - 1)
            /\ \A j \in 1..Len(inv[p].checked) :
                  inv[p].checked[j].index \in 0..(Len(inv[p].users) - 1)

\* the position of the fourth member of an earlier list is read by
\* round_robin on a list of two: the scan starts at the first member,
\* finds it not available and assigns the second
C30_Witness ==
    \E p \in Procs :
        /\ Finished(p) /\ inv[p].result = "ok"
        /\ conf.strategy = "round_robin"
        /\ Len(inv[p].users) = 2
        /\ inv[p].lastIndex = 3
        /\ inv[p].cand = 0
        /\ inv[p].nextIndex = 1

\* ------------------------------------------- claims on sequences of runs
\* C31: with one invocation at a time, no failed write, a fixed member
\* list and no ResetCounts, between operations the number of positions in
\* index.log, the number of audit entries and the sum of all counts are
\* equal, and the latest position is the index of the user named in the
\* latest audit entry.
C31_FilesAgree ==
    (~ioFault /\ \A p \in Procs : ~Busy(p)) =>
        /\ Len(indexLog) = Len(auditLog)
        /\ Len(auditLog) = SumCounts(countsFile)
        /\ indexLog # <<>> =>
              /\ Last(auditLog).next_index = readLastIndex(indexLog, "none")
              /\ Last(auditLog).user = conf.users[readLastIndex(indexLog, "none") + 1]

\* the member list has no name twice
DistinctMembers == Cardinality(Range(conf.users)) = Len(conf.users)

\* C32: with strategy least_assigned, checker always_available and a list
\* of distinct members, starting from all-zero counts, the counts of any
\* two members never differ by more than one, whatever number of real runs
\* has succeeded.
C32_LeastAssignedBalanced ==
    (/\ conf.strategy = "least_assigned"
     /\ conf.checker = "always_available"
     /\ DistinctMembers) =>
        \A a, b \in Range(conf.users) :
            MapGet(countsFile, a) - MapGet(countsFile, b) <= 1

\* C33: a ResetCounts, whatever it returns, leaves index.log,
\* assignments.log and the group file as they were; and under round_robin
\* the first candidate of every run is the successor of the position that
\* was persisted when the run started, so that the first real run after a
\* reset continues from the position persisted before the reset.
C33_ResetChangesOnlyCounts ==
    /\ [][(resetPc' # resetPc \/ resetResult' # "none") =>
             /\ indexLog' = indexLog
             /\ auditLog' = auditLog
             /\ conf' = conf]_vars
    /\ [](\A p \in Procs :
            (conf.strategy = "round_robin" /\ Selected(p)) =>
                inv[p].cand =
                    (readLastIndex(inv[p].pre.indexLog, "none") + 1) % Len(conf.users))

====
